---------------------------- MODULE Spec2Model ----------------------------
(***************************************************************************)
(* A model of tools/extract_rooms.py: the instance-script parser           *)
(* (parse_code_vars), the room document parser (parse_room_file), the      *)
(* project manifest parser (get_room_order) and the batch loop and export  *)
(* of main.                                                                *)
(*                                                                         *)
(* A Python str is a sequence of one-character strings.  An optional value *)
(* (None or x) is the empty sequence or <<x>>.                             *)
(***************************************************************************)
EXTENDS Integers, Sequences, FiniteSets, TLC

VARIABLES
  pc,            \* position of the modelled run
  code,          \* parse_code_vars: its argument
  matches,       \* parse_code_vars: the matches re.finditer yields, in order
  code_vars,     \* parse_code_vars: its result
  room_file,     \* parse_room_file: the name of the file
  room_doc,      \* parse_room_file: the document the file holds
  room_data,     \* parse_room_file: how the call ends
  project,       \* the project document (the manifest)
  directory,     \* the rooms directory: file name -> document
  room_order,    \* main: room_order
  room_to_index, \* main: room_to_index
  files,         \* main: the sorted listing the loop runs over
  idx,           \* main: the position of the loop in the listing
  all_rooms,     \* main: all_rooms
  output,        \* main: output, once built
  parsed,        \* unordered run: file name -> how its parse ended
  manifest_after \* unordered run: how many room files were parsed before the
                 \* manifest (-1 while the manifest is not parsed)

vars ==
  <<pc, code, matches, code_vars, room_file, room_doc, room_data, project,
    directory, room_order, room_to_index, files, idx, all_rooms, output,
    parsed, manifest_after>>

-----------------------------------------------------------------------------
(* Characters and str methods *)

Lower ==
  {"a","b","c","d","e","f","g","h","i","j","k","l","m",
   "n","o","p","q","r","s","t","u","v","w","x","y","z"}

Upper ==
  {"A","B","C","D","E","F","G","H","I","J","K","L","M",
   "N","O","P","Q","R","S","T","U","V","W","X","Y","Z"}

Digits == {"0","1","2","3","4","5","6","7","8","9"}

\* \w of the pattern (ASCII part)
WordChars == Lower \cup Upper \cup Digits \cup {"_"}

\* \s of the pattern and the characters str.strip() removes (ASCII part)
SpaceChars == {" ", "\t", "\n", "\r", "\f"}

\* the characters [^\r\n] excludes
LineBreaks == {"\r", "\n"}

Range(s) == {s[k] : k \in 1..Len(s)}

None == << >>

Some(x) == <<x>>

\* the first position >= i of s whose character is not in S (Len(s)+1 if none)
RECURSIVE RunEnd(_, _, _)
RunEnd(s, i, S) ==
  IF i <= Len(s) /\ s[i] \in S THEN RunEnd(s, i + 1, S) ELSE i

\* the first position >= i of s whose character is in S (Len(s)+1 if none)
RECURSIVE RunEndNot(_, _, _)
RunEndNot(s, i, S) ==
  IF i <= Len(s) /\ s[i] \notin S THEN RunEndNot(s, i + 1, S) ELSE i

\* the last position <= j of s whose character is not in S (0 if none)
RECURSIVE RunStart(_, _, _)
RunStart(s, j, S) ==
  IF j >= 1 /\ s[j] \in S THEN RunStart(s, j - 1, S) ELSE j

StartsWithAt(s, i, p) ==
  i + Len(p) - 1 <= Len(s) /\ SubSeq(s, i, i + Len(p) - 1) = p

\* str.startswith
StartsWith(s, p) == StartsWithAt(s, 1, p)

\* str.replace(old, new): every non-overlapping occurrence, left to right
RECURSIVE ReplaceFrom(_, _, _, _)
ReplaceFrom(s, i, old, new) ==
  IF i > Len(s) THEN << >>
  ELSE IF StartsWithAt(s, i, old)
       THEN new \o ReplaceFrom(s, i + Len(old), old, new)
       ELSE <<s[i]>> \o ReplaceFrom(s, i + 1, old, new)

Replace(s, old, new) == ReplaceFrom(s, 1, old, new)

\* str.strip()
Strip(s) ==
  LET a == RunEnd(s, 1, SpaceChars)
  IN IF a > Len(s) THEN << >>
     ELSE SubSeq(s, a, RunStart(s, Len(s), SpaceChars))

-----------------------------------------------------------------------------
(* int(str) and float(str) *)

DigitVal(c) ==
  CASE c = "0" -> 0 [] c = "1" -> 1 [] c = "2" -> 2 [] c = "3" -> 3
    [] c = "4" -> 4 [] c = "5" -> 5 [] c = "6" -> 6 [] c = "7" -> 7
    [] c = "8" -> 8 [] c = "9" -> 9

\* digits, single underscores allowed between two digits
IsDigitPart(s) ==
  /\ Len(s) > 0
  /\ s[1] \in Digits
  /\ s[Len(s)] \in Digits
  /\ \A k \in 1..Len(s) :
       /\ s[k] \in Digits \cup {"_"}
       /\ (s[k] = "_" => s[k + 1] # "_")

RECURSIVE DigitsValue(_, _, _)
DigitsValue(s, k, acc) ==
  IF k > Len(s) THEN acc
  ELSE IF s[k] = "_" THEN DigitsValue(s, k + 1, acc)
       ELSE DigitsValue(s, k + 1, 10 * acc + DigitVal(s[k]))

\* number of digits of a digit part
DigitCount(s) == Cardinality({k \in 1..Len(s) : s[k] \in Digits})

HasSign(s) == Len(s) > 0 /\ s[1] \in {"+", "-"}

Unsigned(s) == IF HasSign(s) THEN Tail(s) ELSE s

SignOf(s) == IF Len(s) > 0 /\ s[1] = "-" THEN -1 ELSE 1

\* int(s) does not raise ValueError
IsIntLiteral(s) == IsDigitPart(Unsigned(Strip(s)))

\* int(s)
IntValue(s) ==
  LET t == Strip(s) IN SignOf(t) * DigitsValue(Unsigned(t), 1, 0)

\* the parts of a float literal: mantissa before and after the point, exponent
FloatParts(s) ==
  LET u == Unsigned(Strip(s))
      e == RunEndNot(u, 1, {"e", "E"})
      m == SubSeq(u, 1, e - 1)
      d == RunEndNot(m, 1, {"."})
  IN [ip     |-> SubSeq(m, 1, d - 1),
      point  |-> d <= Len(m),
      fp     |-> SubSeq(m, d + 1, Len(m)),
      hasexp |-> e <= Len(u),
      ex     |-> SubSeq(u, e + 1, Len(u))]

\* float(s) does not raise ValueError, and is finite ("inf", "nan" and their
\* long forms hold no "." and make int(float(s)) raise)
FloatPartsOk(p) ==
  /\ IF p.point
     THEN /\ p.ip = << >> \/ IsDigitPart(p.ip)
          /\ p.fp = << >> \/ IsDigitPart(p.fp)
          /\ ~(p.ip = << >> /\ p.fp = << >>)
     ELSE IsDigitPart(p.ip)
  /\ p.hasexp => IsDigitPart(Unsigned(p.ex))

IsFloatLiteral(s) == FloatPartsOk(FloatParts(s))

RECURSIVE Pow10(_)
Pow10(n) == IF n <= 0 THEN 1 ELSE 10 * Pow10(n - 1)

\* num * 10^exp with num not a multiple of 10 (0 is 0 * 10^0)
RECURSIVE Normal(_, _)
Normal(num, exp) ==
  IF num = 0 THEN [num |-> 0, exp |-> 0]
  ELSE IF num % 10 = 0 THEN Normal(num \div 10, exp + 1)
       ELSE [num |-> num, exp |-> exp]

\* the value of the parts of a float literal, with its sign
FloatPartsValue(sign, p) ==
  Normal(sign * DigitsValue(p.fp, 1, DigitsValue(p.ip, 1, 0)),
         (IF p.hasexp
          THEN SignOf(p.ex) * DigitsValue(Unsigned(p.ex), 1, 0)
          ELSE 0) - DigitCount(p.fp))

\* float(s), as the decimal num * 10^exp
FloatValue(s) == FloatPartsValue(SignOf(Strip(s)), FloatParts(s))

-----------------------------------------------------------------------------
(* parse_code_vars *)

IntVal(n) == [type |-> "int", num |-> n, exp |-> 0, text |-> << >>]

FloatVal(f) ==
  [type |-> "float", num |-> f.num, exp |-> f.exp, text |-> << >>]

StrVal(s) == [type |-> "str", num |-> 0, exp |-> 0, text |-> s]

\* Coerce with float() tried first, whether or not the value holds a "."
CoerceFloatFirst(value) ==
  IF IsFloatLiteral(value) THEN FloatVal(FloatValue(value))
  ELSE IF IsIntLiteral(value) THEN IntVal(IntValue(value)) ELSE StrVal(value)

\* the try/except of the loop body: float() or int(), the str on ValueError
Coerce(value) ==
  IF "." \in Range(value)
  THEN IF IsFloatLiteral(value)
       THEN FloatVal(FloatValue(value))
       ELSE StrVal(value)
  ELSE IF IsIntLiteral(value) THEN IntVal(IntValue(value)) ELSE StrVal(value)

\* code.replace("&#13;", "\r").replace("&#10;", "\n")
DecodeEntities(s) ==
  Replace(Replace(s, <<"&","#","1","3",";">>, <<"\r">>),
          <<"&","#","1","0",";">>, <<"\n">>)

NoMatch == [ok |-> FALSE, name |-> << >>, value |-> << >>, eq |-> 0,
            from |-> 0, end |-> 0]

\* the pattern (\w+)\s*=\s*([^\r\n]+) tried at position i of s.  \w+ and the
\* first \s* can only take their longest runs (a shorter one is followed by a
\* character of the run, never by "=").  The second \s* is greedy and gives
\* characters back until [^\r\n]+ finds one character: the group starts at the
\* last position j of eq+1..k that holds a character other than \r and \n,
\* k being the end of the whitespace run after "=".
MatchAt(s, i) ==
  LET w  == RunEnd(s, i, WordChars)
      eq == RunEnd(s, w, SpaceChars)
      k  == RunEnd(s, eq + 1, SpaceChars)
      J  == {j \in (eq + 1)..k : j <= Len(s) /\ s[j] \notin LineBreaks}
      j  == CHOOSE x \in J : \A y \in J : y <= x
      e  == RunEndNot(s, j, LineBreaks)
  IN IF w = i \/ eq > Len(s) THEN NoMatch
     ELSE IF s[eq] # "=" \/ J = {} THEN NoMatch
     ELSE [ok |-> TRUE, name |-> SubSeq(s, i, w - 1),
           value |-> SubSeq(s, j, e - 1), eq |-> eq, from |-> j, end |-> e]

\* re.finditer: the matches from position i on, left to right, each search
\* starting where the previous match ended
RECURSIVE FindIter(_, _)
FindNext(s, i, m) ==
  IF m.ok THEN <<m>> \o FindIter(s, m.end) ELSE FindIter(s, i + 1)

FindIter(s, i) == IF i > Len(s) THEN << >> ELSE FindNext(s, i, MatchAt(s, i))

\* the loop over the matches: vars[name] = the coerced value, later
\* assignments to a name replacing earlier ones
\* vars[name] = value
SetVar(acc, name, value) ==
  [n \in DOMAIN acc \cup {name} |-> IF n = name THEN value ELSE acc[n]]

RECURSIVE Assign(_, _, _)
Assign(ms, k, acc) ==
  IF k > Len(ms) THEN acc
  ELSE Assign(ms, k + 1,
              SetVar(acc, Strip(ms[k].name), Coerce(Strip(ms[k].value))))

EmptyVars == [n \in {} |-> 0]

\* parse_code_vars(code); code is None, or <<the str>>
parse_code_vars(c) ==
  IF c = None \/ c[1] = << >> THEN EmptyVars
  ELSE Assign(FindIter(DecodeEntities(c[1]), 1), 1, EmptyVars)

-----------------------------------------------------------------------------
(* Ordering of str values, as sorted() compares them *)

\* the characters of code points 32..126, in order (code point 96 is left
\* out: its place holds the empty string)
Printable ==
  <<
    " ","!","\"","#","$","%","&","'","(",")","*","+",",","-",".","/",
    "0","1","2","3","4","5","6","7","8","9",":",";","<","=",">","?",
    "@","A","B","C","D","E","F","G","H","I","J","K","L","M","N","O",
    "P","Q","R","S","T","U","V","W","X","Y","Z","[","\\","]","^","_",
    "","a","b","c","d","e","f","g","h","i","j","k","l","m","n","o",
    "p","q","r","s","t","u","v","w","x","y","z","{","|","}","~"
  >>

\* ord(c) for the characters of Printable
Ord(c) == 31 + (CHOOSE k \in 1..Len(Printable) : Printable[k] = c)

\* a < b for two str
RECURSIVE LessStr(_, _)
LessStr(a, b) ==
  IF b = << >> THEN FALSE
  ELSE IF a = << >> THEN TRUE
  ELSE IF Head(a) = Head(b) THEN LessStr(Tail(a), Tail(b))
  ELSE Ord(Head(a)) < Ord(Head(b))

\* sorted(S) for a set S of str
RECURSIVE Sorted(_)
Sorted(S) ==
  IF S = {} THEN << >>
  ELSE LET m == CHOOSE x \in S : \A y \in S \ {x} : LessStr(x, y)
       IN <<m>> \o Sorted(S \ {m})

EndsWith(s, p) == Len(p) <= Len(s) /\ SubSeq(s, Len(s) - Len(p) + 1, Len(s)) = p

\* p in s
Contains(s, p) == \E i \in 1..(Len(s) + 1) : StartsWithAt(s, i, p)

-----------------------------------------------------------------------------
(* parse_room_file *)

\* A room document is [wellformed, width, height, code, instances]: width,
\* height and code are None (no such element) or <<text>>, text being None or
\* <<the str>>; instances is None (no <instances> element) or <<the sequence
\* of <instance> elements>>, each [objName, x, y, code, id] of optional str.

SLIMEPOINT == <<"o","b","j","_","s","l","i","m","e","p","o","i","n","t">>

WARP_PREFIX == <<"w","a","r","p","_">>

NPC_PREFIX == <<"N","P","C","_">>

\* the list of line 164
ShopNames ==
  {<<"o","b","j","_","s","h","o","p","_","i","t","e","m">>,
   <<"o","b","j","_","s","h","o","p","_","c","a","l","l","_","i","t","e","m">>,
   <<"o","b","j","_","s","e","l","l","_","s","i","g","n">>}

\* the list of lines 170-194
SpecialNames ==
  {<<"o","b","j","_","b","a","n","k">>,
   <<"o","b","j","_","m","a","i","l","b","o","x">>,
   <<"o","b","j","_","s","t","o","r","a","g","e","_","b","o","x">>,
   <<"o","b","j","_","s","a","v","e","_","b","g">>,
   <<"o","b","j","_","c","l","o","c","k","_","s","t","a","n","d">>,
   <<"o","b","j","_","w","a","r","p","c","e","n","t","e","r">>,
   <<"o","b","j","_","c","l","a","n","_","m","a","c","h","i","n","e">>,
   <<"o","b","j","_","p","o","s","t","_","o","f","f","i","c","e">>,
   <<"o","b","j","_","g","u","m","_","m","a","c","h","i","n","e">>,
   <<"o","b","j","_","s","o","d","a","_","m","a","c","h","i","n","e">>,
   <<"o","b","j","_","u","p","g","r","a","d","e","r">>,
   <<"P","l","a","n","t","i","n","g","_","F","i","e","l","d">>,
   <<"B","u","i","l","d","i","n","g","_","S","p","o","t">>,
   <<"o","b","j","_","d","r","i","l","l">>,
   <<"o","b","j","_","r","a","c","e","_","m","a","c","h","i","n","e">>,
   <<"o","b","j","_","r","a","c","e","_","s","t","a","r","t","_","v","e","r">>,
   <<"o","b","j","_","r","a","c","e","_","s","t","a","r","t","_","h","o","r">>,
   <<"o","b","j","_","r","a","c","e","_","e","n","d","_","v","e","r">>,
   <<"o","b","j","_","r","a","c","e","_","e","n","d","_","h","o","r">>,
   <<"o","b","j","_","t","e","l","e","p","o","r","t","e","r">>,
   <<"o","b","j","_","m","u","s","i","c","_","c","h","a","n","g","e","r">>,
   <<"o","b","j","_","b","i","l","l","b","o","a","r","d">>,
   <<"o","b","j","_","c","o","m","b","i","n","a","t","o","r">>}


RM_POINTS == <<"r","m","_","p","o","i","n","t","s"," ","="," ","1">>

ROOM_SUFFIX == <<".","r","o","o","m">>

\* Path.stem: the file name without its last suffix
Stem(name) ==
  LET i == RunStart(name, Len(name), Range(name) \ {"."})
  IN IF 1 < i /\ i < Len(name) THEN SubSeq(name, 1, i - 1) ELSE name

\* filepath.stem.replace(".room", "")
RoomName(filepath) == Replace(Stem(filepath), ROOM_SUFFIX, << >>)

Ok(v) == [raised |-> FALSE, v |-> v]

Raised == [raised |-> TRUE, v |-> 0]

\* int(f) of a float: truncation toward zero
TruncInt(f) ==
  IF f.exp >= 0 THEN f.num * Pow10(f.exp)
  ELSE IF f.num >= 0 THEN f.num \div Pow10(0 - f.exp)
       ELSE 0 - ((0 - f.num) \div Pow10(0 - f.exp))

\* int(elem.text) if elem is not None and elem.text else 0
Dimension(elem) ==
  IF elem # None /\ elem[1] # None /\ elem[1][1] # << >>
  THEN IF IsIntLiteral(elem[1][1]) THEN Ok(IntValue(elem[1][1])) ELSE Raised
  ELSE Ok(0)

\* code_elem.text if code_elem is not None and code_elem.text else ""
RoomCode(elem) ==
  IF elem # None /\ elem[1] # None /\ elem[1][1] # << >>
  THEN elem[1][1] ELSE << >>

\* int(float(inst.get(attr, 0)))
Coordinate(attr) ==
  IF attr = None THEN Ok(0)
  ELSE IF IsFloatLiteral(attr[1]) THEN Ok(TruncInt(FloatValue(attr[1])))
       ELSE Raised

\* int(inst.get("id", 0))
InstanceId(attr) ==
  IF attr = None THEN Ok(0)
  ELSE IF IsIntLiteral(attr[1]) THEN Ok(IntValue(attr[1])) ELSE Raised

\* inst.get(attr, "")
StrAttr(attr) == IF attr = None THEN << >> ELSE attr[1]

\* code_vars.get(name)
Get(cv, name) == IF name \in DOMAIN cv THEN Some(cv[name]) ELSE None

\* Classify with the last elif written as an else
ClassifyElseSpecial(obj_name) ==
  IF obj_name = SLIMEPOINT THEN "spawn_points"
  ELSE IF StartsWith(obj_name, WARP_PREFIX) THEN "warps"
  ELSE IF StartsWith(obj_name, NPC_PREFIX) THEN "npcs"
  ELSE IF obj_name \in ShopNames THEN "shops"
  ELSE "special_objects"

\* the collection the if/elif chain of lines 141-197 appends the instance to
Classify(obj_name) ==
  IF obj_name = SLIMEPOINT THEN "spawn_points"
  ELSE IF StartsWith(obj_name, WARP_PREFIX) THEN "warps"
  ELSE IF StartsWith(obj_name, NPC_PREFIX) THEN "npcs"
  ELSE IF obj_name \in ShopNames THEN "shops"
  ELSE IF obj_name \in SpecialNames THEN "special_objects"
  ELSE "none"

EmptyRoom(name, width, height, has_collectibles) ==
  [name |-> name, room_index |-> 0, width |-> width, height |-> height,
   has_collectibles |-> has_collectibles, spawn_points |-> << >>,
   warps |-> << >>, npcs |-> << >>, shops |-> << >>,
   special_objects |-> << >>]

\* Warp(x=x, y=y, warp_type=obj_name, next_room=code_vars.get("next_room"),
\* new_x=code_vars.get("new_x"), new_y=code_vars.get("new_y"), code=code)
MakeWarp(obj_name, x, y, icode, cv) ==
  [x |-> x, y |-> y, warp_type |-> obj_name,
   next_room |-> Get(cv, <<"n","e","x","t","_","r","o","o","m">>),
   new_x |-> Get(cv, <<"n","e","w","_","x">>),
   new_y |-> Get(cv, <<"n","e","w","_","y">>),
   code |-> icode]

\* Instance(obj_name=obj_name, x=x, y=y, code=code, instance_id=inst_id)
MakeInstance(obj_name, x, y, icode, inst_id) ==
  [obj_name |-> obj_name, x |-> x, y |-> y, code |-> icode,
   instance_id |-> inst_id]

\* the append of the branch taken at lines 141-197
Place(room, kind, obj_name, x, y, icode, inst_id, cv) ==
  CASE kind = "spawn_points" ->
         [room EXCEPT !.spawn_points = Append(@, [x |-> x, y |-> y])]
    [] kind = "warps" ->
         [room EXCEPT !.warps = Append(@, MakeWarp(obj_name, x, y, icode, cv))]
    [] kind = "npcs" ->
         [room EXCEPT
            !.npcs = Append(@, MakeInstance(obj_name, x, y, icode, inst_id))]
    [] kind = "shops" ->
         [room EXCEPT
            !.shops = Append(@, MakeInstance(obj_name, x, y, icode, inst_id))]
    [] kind = "special_objects" ->
         [room EXCEPT
            !.special_objects =
               Append(@, MakeInstance(obj_name, x, y, icode, inst_id))]
    [] OTHER -> room

\* lines 138-197 once obj_name, x, y, code and inst_id are read: an exception
\* of one of the conversions, or the room with the instance in its collection
Converted(room, obj_name, x, y, icode, inst_id) ==
  IF x.raised \/ y.raised \/ inst_id.raised THEN Raised
  ELSE Ok(Place(room, Classify(obj_name), obj_name, x.v, y.v, icode,
                inst_id.v, parse_code_vars(Some(icode))))

\* one pass of the loop over the instances (lines 132-197)
AddInstance(room, inst) ==
  Converted(room, StrAttr(inst.objName), Coordinate(inst.x),
            Coordinate(inst.y), StrAttr(inst.code), InstanceId(inst.id))

\* the loop of lines 131-197 from instance k on
RECURSIVE AddInstances(_, _, _)
AddRest(r, insts, k) ==
  IF r.raised THEN Raised ELSE AddInstances(r.v, insts, k)

AddInstances(room, insts, k) ==
  IF k > Len(insts) THEN Ok(room)
  ELSE AddRest(AddInstance(room, insts[k]), insts, k + 1)

\* what a call of parse_room_file ends with: a RoomData, None, an exception
ResultRoom(room) == [kind |-> "room", room |-> Some(room)]

ResultNone == [kind |-> "none", room |-> None]

ResultRaise == [kind |-> "raise", room |-> None]

\* the return of line 199, unless a conversion raised
Returned(r) == IF r.raised THEN ResultRaise ELSE ResultRoom(r.v)

\* lines 116-210 on the room with no instance yet
WithInstances(room, instances) ==
  IF instances = None THEN ResultRoom(room)
  ELSE Returned(AddInstances(room, instances[1], 1))

\* lines 95-210 once width and height are converted
Measured(filepath, doc, width, height) ==
  IF width.raised \/ height.raised THEN ResultRaise
  ELSE WithInstances(EmptyRoom(RoomName(filepath), width.v, height.v,
                               Contains(RoomCode(doc.code), RM_POINTS)),
                     doc.instances)

\* parse_room_file(filepath) on the document the file holds
parse_room_file(filepath, doc) ==
  IF ~doc.wellformed THEN ResultNone
  ELSE Measured(filepath, doc, Dimension(doc.width), Dimension(doc.height))

-----------------------------------------------------------------------------
(* get_room_order *)

\* The project document is [wellformed, rooms]: rooms is None (no element
\* <rooms name="rooms">) or <<the sequence of its <room> children>>, each the
\* child's text: None or <<the str>>.

ROOMS_PREFIX == <<"r","o","o","m","s","\\">>

\* the loop of lines 229-232 from child k on
RECURSIVE RoomEntries(_, _)
RoomEntries(entries, k) ==
  IF k > Len(entries) THEN << >>
  ELSE LET text == entries[k]
       IN (IF text # None /\ text[1] # << >>
           THEN <<Replace(text[1], ROOMS_PREFIX, << >>)>>
           ELSE << >>) \o RoomEntries(entries, k + 1)

get_room_order(proj) ==
  IF ~proj.wellformed THEN << >>
  ELSE IF proj.rooms = None THEN << >>
  ELSE RoomEntries(proj.rooms[1], 1)

-----------------------------------------------------------------------------
(* main *)

\* RoomToIndex keeping the first position of a name
RoomToIndexFirst(order) ==
  [n \in Range(order) |->
     (CHOOSE k \in 1..Len(order) :
        order[k] = n /\ \A j \in 1..(k - 1) : order[j] # n) - 1]

\* {name: idx for idx, name in enumerate(room_order)}, idx counted from 0
RoomToIndex(order) ==
  [n \in Range(order) |->
     (CHOOSE k \in 1..Len(order) :
        order[k] = n /\ \A j \in (k + 1)..Len(order) : order[j] # n) - 1]

\* IndexOf with 0 for a name that is not listed
IndexOfDefault0(r2i, name) == IF name \in DOMAIN r2i THEN r2i[name] ELSE 0

\* room_to_index.get(name, -1)
IndexOf(r2i, name) == IF name \in DOMAIN r2i THEN r2i[name] ELSE -1

ROOM_GLOB_SUFFIX == <<".","r","o","o","m",".","g","m","x">>

\* sorted(GMX_ROOMS_DIR.glob("*.room.gmx")): the directory is a function from
\* the names of its files to the documents they hold
RoomFiles(dir) == Sorted({f \in DOMAIN dir : EndsWith(f, ROOM_GLOB_SUFFIX)})

\* StoreRoom keeping the room already stored under the name
StoreRoomKeepFirst(all, room) ==
  [n \in DOMAIN all \cup {room.name} |->
     IF n \in DOMAIN all THEN all[n] ELSE room]

\* all_rooms[room_data.name] = room_data
StoreRoom(all, room) ==
  [n \in DOMAIN all \cup {room.name} |->
     IF n = room.name THEN room ELSE all[n]]

\* lines 249-252: a RoomData gets its index and is stored under its name
StoreResult(all, r2i, result) ==
  IF result.kind = "raise" THEN Raised
  ELSE IF result.kind = "none" THEN Ok(all)
  ELSE Ok(StoreRoom(all, [result.room[1] EXCEPT
                            !.room_index =
                               IndexOf(r2i, result.room[1].name)]))

\* one pass of the loop of lines 247-252
LoopBody(all, r2i, filepath, doc) ==
  StoreResult(all, r2i, parse_room_file(filepath, doc))

\* the loop of lines 247-252 from file k on
RECURSIVE MainLoop(_, _, _, _, _)
MainRest(r, r2i, dir, fs, k) ==
  IF r.raised THEN Raised ELSE MainLoop(r.v, r2i, dir, fs, k)

MainLoop(all, r2i, dir, fs, k) ==
  IF k > Len(fs) THEN Ok(all)
  ELSE MainRest(LoopBody(all, r2i, fs[k], dir[fs[k]]), r2i, dir, fs, k + 1)

\* the dict of lines 297-307 for one warp
ExportWarp(w) ==
  [x |-> w.x, y |-> w.y, type |-> w.warp_type, next_room |-> w.next_room,
   new_x |-> w.new_x, new_y |-> w.new_y]

\* the dict of lines 291-311 for one room
ExportRoom(room) ==
  [index |-> room.room_index, width |-> room.width, height |-> room.height,
   has_collectibles |-> room.has_collectibles,
   spawn_points |-> room.spawn_points,
   warps |-> [k \in 1..Len(room.warps) |-> ExportWarp(room.warps[k])],
   npcs |-> room.npcs, shops |-> room.shops,
   special_objects |-> room.special_objects]

\* the output of lines 288-311
Export(all, order) ==
  [rooms |-> [n \in DOMAIN all |-> ExportRoom(all[n])], room_order |-> order]

NoRooms == [n \in {} |-> 0]

-----------------------------------------------------------------------------
(* The values a variable holds while the run modelled does not use it *)

IdleCode == code = None /\ matches = << >> /\ code_vars = << >>

IdleRoom == room_file = << >> /\ room_doc = << >> /\ room_data = << >>

IdleMain ==
  /\ project = << >> /\ directory = << >> /\ room_order = << >>
  /\ room_to_index = << >> /\ files = << >> /\ idx = 0
  /\ all_rooms = << >> /\ output = None

IdlePar == parsed = << >> /\ manifest_after = -1

codeVars == <<code, matches, code_vars>>

roomVars == <<room_file, room_doc, room_data>>

mainVars ==
  <<project, directory, room_order, room_to_index, files, idx, all_rooms,
    output>>

parVars == <<parsed, manifest_after>>

-----------------------------------------------------------------------------
(* parse_code_vars on its own: every script of at most MaxTokens tokens *)

MaxTokens == 4

ScriptTokens ==
  {<<"a">>, <<"e">>, <<"5">>, <<".">>, <<"=">>, <<" ">>, <<"\n">>,
   <<"&","#","1","3",";">>}

RECURSIVE Concats(_, _)
Concats(T, n) ==
  IF n = 0 THEN {<< >>}
  ELSE LET P == Concats(T, n - 1) IN P \cup {p \o t : p \in P, t \in T}

Scripts == {None} \cup {Some(s) : s \in Concats(ScriptTokens, MaxTokens)}

InitCode ==
  /\ pc = "code"
  /\ code \in Scripts
  /\ matches = << >>
  /\ code_vars = EmptyVars
  /\ IdleRoom /\ IdleMain /\ IdlePar

ParseCodeVars ==
  /\ pc = "code"
  /\ pc' = "parsed"
  /\ matches' = IF code = None THEN << >>
                ELSE FindIter(DecodeEntities(code[1]), 1)
  /\ code_vars' = parse_code_vars(code)
  /\ UNCHANGED <<code, roomVars, mainVars, parVars>>

NextCode == ParseCodeVars

SpecCode == InitCode /\ [][NextCode]_vars

-----------------------------------------------------------------------------
(* parse_room_file on its own: every document of at most MaxInstances        *)
(* instances drawn from InstElems, under each of the DocHeads                *)

MaxInstances == 2

WARP_VERT == <<"w","a","r","p","_","v","e","r","t">>

NPC_A == <<"N","P","C","_","a">>

InstNames ==
  {None, Some(SLIMEPOINT), Some(WARP_PREFIX), Some(WARP_VERT), Some(NPC_A),
   Some(<<"n","p","c","_","a">>),
   Some(<<"o","b","j","_","s","h","o","p","_","i","t","e","m">>),
   Some(<<"o","b","j","_","b","a","n","k">>),
   Some(<<"o","b","j","_","w","a","l","l">>)}

BaseInst(n) ==
  [objName |-> n, x |-> Some(<<"6","4">>), y |-> Some(<<"3","2">>), code |-> None,
   id |-> Some(<<"7">>)]

\* "next_room = 5\r\nnew_x=120\r\nnew_y=80", "next_room=a", "new_x=6.5",
\* "next_room=&#10;new_x=5"
WarpScripts ==
  {<<"n","e","x","t","_","r","o","o","m"," ","="," ","5","\r","\n","n","e","w","_","x","=","1","2","0","\r","\n","n","e","w","_","y","=","8","0">>,
   <<"n","e","x","t","_","r","o","o","m","=","a">>,
   <<"n","e","w","_","x","=","6",".","5">>,
   <<"n","e","x","t","_","r","o","o","m","=","&","#","1","0",";","n","e","w","_","x","=","5">>}

InstElems ==
  {BaseInst(n) : n \in InstNames}
  \cup {[BaseInst(Some(WARP_VERT)) EXCEPT !.code = Some(c)] : c \in WarpScripts}
  \cup {[BaseInst(Some(NPC_A)) EXCEPT !.x = v] :
          v \in {None, Some(<<"-","6",".","5">>), Some(<<"a">>)}}
  \cup {[BaseInst(Some(NPC_A)) EXCEPT !.id = v] : v \in {None, Some(<<"7",".","5">>)}}

RECURSIVE SeqsUpTo(_, _)
SeqsUpTo(S, n) ==
  IF n = 0 THEN {<< >>}
  ELSE LET P == SeqsUpTo(S, n - 1)
       IN P \cup {Append(p, e) : p \in P, e \in S}

DocHeads ==
  {[width |-> None, height |-> None, code |-> None],
   [width |-> Some(None), height |-> Some(Some(<<"4","8","0">>)), code |-> Some(None)],
   [width |-> Some(Some(<<"6","4","0">>)), height |-> Some(Some(<<"4","8","0">>)),
    code |-> Some(Some(<<"a","=","1","\n">> \o RM_POINTS))],
   [width |-> Some(Some(<<"a","b","c">>)), height |-> Some(Some(<<"4","8","0">>)),
    code |-> Some(Some(<<"r","m","_","p","o","i","n","t","s"," ","="," ","0">>))]}

Doc(h, insts) ==
  [wellformed |-> TRUE, width |-> h.width, height |-> h.height,
   code |-> h.code, instances |-> insts]

DocMalformed ==
  [wellformed |-> FALSE, width |-> None, height |-> None, code |-> None,
   instances |-> None]

RoomDocs ==
  {DocMalformed}
  \cup {Doc(h, i) : h \in DocHeads,
          i \in {None} \cup {Some(s) : s \in SeqsUpTo(InstElems, MaxInstances)}}

FILE_A == <<"a",".","r","o","o","m",".","g","m","x">>

InitRoom ==
  /\ pc = "room"
  /\ room_file = FILE_A
  /\ room_doc \in RoomDocs
  /\ room_data = << >>
  /\ IdleCode /\ IdleMain /\ IdlePar

ParseRoomFile ==
  /\ pc = "room"
  /\ pc' = "roomdone"
  /\ room_data' = parse_room_file(room_file, room_doc)
  /\ UNCHANGED <<room_file, room_doc, codeVars, mainVars, parVars>>

NextRoom == ParseRoomFile

SpecRoom == InitRoom /\ [][NextRoom]_vars

-----------------------------------------------------------------------------
(* get_room_order on its own: every project of at most MaxEntries entries,   *)
(* each of at most MaxEntryTokens tokens                                     *)

MaxEntries == 2

MaxEntryTokens == 2

EntryTokens == {ROOMS_PREFIX, <<"a">>, <<"b">>}

EntryTexts ==
  {None} \cup {Some(t) : t \in Concats(EntryTokens, MaxEntryTokens)}

ProjectMalformed == [wellformed |-> FALSE, rooms |-> None]

ProjectsOf(texts, n) ==
  {ProjectMalformed, [wellformed |-> TRUE, rooms |-> None]}
  \cup {[wellformed |-> TRUE, rooms |-> Some(s)] : s \in SeqsUpTo(texts, n)}

InitManifest ==
  /\ pc = "manifest"
  /\ project \in ProjectsOf(EntryTexts, MaxEntries)
  /\ directory = << >> /\ room_order = << >>
  /\ room_to_index = << >> /\ files = << >> /\ idx = 0
  /\ all_rooms = << >> /\ output = None
  /\ IdleCode /\ IdleRoom /\ IdlePar

ReadRoomOrder ==
  /\ pc = "manifest"
  /\ pc' = "ordered"
  /\ room_order' = get_room_order(project)
  /\ UNCHANGED <<project, directory, room_to_index, files, idx, all_rooms,
                 output, codeVars, roomVars, parVars>>

NextManifest == ReadRoomOrder

SpecManifest == InitManifest /\ [][NextManifest]_vars

-----------------------------------------------------------------------------
(* main: every project of at most MaxOrder entries and every directory that  *)
(* holds some of the files of FileNames, each with one of the BatchDocs      *)

MaxOrder == 2

OrderTexts ==
  {Some(<<"r","o","o","m","s","\\","a">>),
   Some(<<"r","o","o","m","s","\\","b">>),
   Some(<<"r","o","o","m","s","\\","c">>)}

FILE_A2 == <<"a",".","r","o","o","m",".","r","o","o","m",".","g","m","x">>

FILE_B == <<"b",".","r","o","o","m",".","g","m","x">>

FILE_OTHER == <<"b",".","g","m","x">>

FileNames == {FILE_A, FILE_A2, FILE_B}

DocBadWidth ==
  Doc([width |-> Some(Some(<<"a","b","c">>)), height |-> Some(Some(<<"4","8","0">>)), code |-> None], None)

DocSpawn ==
  Doc([width |-> Some(Some(<<"6","4","0">>)), height |-> Some(Some(<<"4","8","0">>)),
       code |-> Some(Some(RM_POINTS))],
      Some(<<BaseInst(Some(SLIMEPOINT))>>))

DocWarp ==
  Doc([width |-> Some(Some(<<"3","2","0">>)), height |-> Some(Some(<<"2","4","0">>)), code |-> None],
      Some(<<[BaseInst(Some(WARP_VERT)) EXCEPT
                !.code = Some(<<"n","e","x","t","_","r","o","o","m","=","1","&","#","1","3",";","&","#","1","0",";","n","e","w","_","x","=","6",".","5">>)]>>))

BatchDocs == {DocMalformed, DocBadWidth, DocSpawn, DocWarp}

Directories ==
  UNION {{d @@ o : d \in [F -> BatchDocs],
                   o \in {NoRooms, (FILE_OTHER :> DocSpawn)}} :
         F \in SUBSET FileNames}

Init ==
  /\ pc = "start"
  /\ project \in ProjectsOf(OrderTexts, MaxOrder)
  /\ directory \in Directories
  /\ room_order = << >> /\ room_to_index = << >>
  /\ files = << >> /\ idx = 0
  /\ all_rooms = NoRooms
  /\ output = None
  /\ IdleCode /\ IdleRoom /\ IdlePar

\* lines 239-247: the room order, its index, the sorted listing
GetRoomOrder ==
  /\ pc = "start"
  /\ pc' = "loop"
  /\ room_order' = get_room_order(project)
  /\ room_to_index' = RoomToIndex(get_room_order(project))
  /\ files' = RoomFiles(directory)
  /\ idx' = 1
  /\ UNCHANGED <<project, directory, all_rooms, output, codeVars, roomVars,
                 parVars>>

\* lines 247-252: one pass of the loop; an exception ends the run
Looped(r) ==
  /\ pc' = IF r.raised THEN "aborted" ELSE "loop"
  /\ all_rooms' = IF r.raised THEN all_rooms ELSE r.v

ParseRoom ==
  /\ pc = "loop"
  /\ idx <= Len(files)
  /\ Looped(LoopBody(all_rooms, room_to_index, files[idx],
                     directory[files[idx]]))
  /\ idx' = idx + 1
  /\ UNCHANGED <<project, directory, room_order, room_to_index, files,
                 output, codeVars, roomVars, parVars>>

\* lines 288-315: the export, once the loop is over
ExportRooms ==
  /\ pc = "loop"
  /\ idx > Len(files)
  /\ pc' = "done"
  /\ output' = Some(Export(all_rooms, room_order))
  /\ UNCHANGED <<project, directory, room_order, room_to_index, files, idx,
                 all_rooms, codeVars, roomVars, parVars>>

Next == GetRoomOrder \/ ParseRoom \/ ExportRooms

Spec == Init /\ [][Next]_vars

-----------------------------------------------------------------------------
(* The same steps with no order between the manifest parse and the room      *)
(* document parses: each runs once, in any order, and the index assignment   *)
(* and the merge of lines 249-252 run over the results, in the order of the  *)
(* listing, once all of them are there                                       *)

InitPar ==
  /\ pc = "par"
  /\ project \in ProjectsOf(OrderTexts, MaxOrder)
  /\ directory \in Directories
  /\ room_order = << >> /\ room_to_index = << >>
  /\ files = RoomFiles(directory) /\ idx = 0
  /\ all_rooms = NoRooms
  /\ output = None
  /\ parsed = NoRooms /\ manifest_after = -1
  /\ IdleCode /\ IdleRoom

ParGetRoomOrder ==
  /\ pc = "par"
  /\ manifest_after = -1
  /\ manifest_after' = Cardinality(DOMAIN parsed)
  /\ room_order' = get_room_order(project)
  /\ room_to_index' = RoomToIndex(get_room_order(project))
  /\ UNCHANGED <<pc, project, directory, files, idx, all_rooms, output,
                 parsed, codeVars, roomVars>>

ParParseRoom ==
  /\ pc = "par"
  /\ \E k \in 1..Len(files) :
       /\ files[k] \notin DOMAIN parsed
       /\ parsed' = parsed @@
                      (files[k] :> parse_room_file(files[k],
                                                   directory[files[k]]))
  /\ UNCHANGED <<pc, project, directory, room_order, room_to_index, files,
                 idx, all_rooms, output, manifest_after, codeVars, roomVars>>

\* MergeAll taking the results from the end of the listing to its start
RECURSIVE MergeAllReversed(_, _, _, _, _)
MergeRestReversed(r, r2i, res, fs, k) ==
  IF r.raised THEN Raised ELSE MergeAllReversed(r.v, r2i, res, fs, k)

MergeAllReversed(all, r2i, res, fs, k) ==
  IF k > Len(fs) THEN Ok(all)
  ELSE MergeRestReversed(StoreResult(all, r2i, res[fs[Len(fs) + 1 - k]]),
                         r2i, res, fs, k + 1)

\* lines 249-252 over the results, from file k of the listing on
RECURSIVE MergeAll(_, _, _, _, _)
MergeRest(r, r2i, res, fs, k) ==
  IF r.raised THEN Raised ELSE MergeAll(r.v, r2i, res, fs, k)

MergeAll(all, r2i, res, fs, k) ==
  IF k > Len(fs) THEN Ok(all)
  ELSE MergeRest(StoreResult(all, r2i, res[fs[k]]), r2i, res, fs, k + 1)

Merged(r) ==
  /\ pc' = IF r.raised THEN "aborted" ELSE "done"
  /\ all_rooms' = IF r.raised THEN all_rooms ELSE r.v
  /\ output' = IF r.raised THEN None ELSE Some(Export(r.v, room_order))

Aggregate ==
  /\ pc = "par"
  /\ manifest_after >= 0
  /\ \A k \in 1..Len(files) : files[k] \in DOMAIN parsed
  /\ Merged(MergeAll(NoRooms, room_to_index, parsed, files, 1))
  /\ UNCHANGED <<project, directory, room_order, room_to_index, files, idx,
                 parsed, manifest_after, codeVars, roomVars>>

NextPar == ParGetRoomOrder \/ ParParseRoom \/ Aggregate

SpecPar == InitPar /\ [][NextPar]_vars

-----------------------------------------------------------------------------
(* The claims on parse_code_vars (SpecCode) *)

\* the last match that binds name n
LastMatch(n) ==
  matches[CHOOSE k \in 1..Len(matches) :
            /\ Strip(matches[k].name) = n
            /\ \A j \in (k + 1)..Len(matches) : Strip(matches[j].name) # n]

TypedByRule(r, v) ==
  IF "." \in Range(v) /\ IsFloatLiteral(v)
  THEN r.type = "float" /\ [num |-> r.num, exp |-> r.exp] = FloatValue(v)
  ELSE IF "." \notin Range(v) /\ IsIntLiteral(v)
       THEN r.type = "int" /\ r.num = IntValue(v)
       ELSE r.type = "str" /\ r.text = v

\* C6: parse_code_vars returns a mapping for every input, the empty mapping
\* for an empty or null input; the names bound are the names matched, and the
\* value of each is typed from the trimmed text of its last match: a float
\* when the text holds a decimal point and parses as a number, an int when it
\* holds none and parses as an integer, the trimmed text itself otherwise.
C6_TypedValues ==
  pc = "parsed" =>
    /\ (code = None \/ code = Some(<< >>)) => code_vars = EmptyVars
    /\ DOMAIN code_vars =
         {Strip(matches[k].name) : k \in 1..Len(matches)}
    /\ \A n \in DOMAIN code_vars :
         TypedByRule(code_vars[n], Strip(LastMatch(n).value))

\* a value with a decimal point that is no number is kept as a string
C6_Witness ==
  /\ pc = "parsed"
  /\ \E n \in DOMAIN code_vars :
       /\ code_vars[n].type = "str"
       /\ "." \in Range(code_vars[n].text)

\* C9: the value bound to an identifier is taken from the line of its "=":
\* no line break lies between the "=" of a match and the end of its value.
C9_ValueOnTheLineOfItsEquals ==
  pc = "parsed" =>
    \A k \in 1..Len(matches) :
      \A q \in matches[k].eq..(matches[k].end - 1) :
        DecodeEntities(code[1])[q] \notin LineBreaks

-----------------------------------------------------------------------------
(* The claims on parse_room_file (SpecRoom) *)

\* the rules of the classification, in their order
MatchesRule(r, n) ==
  CASE r = 1 -> n = SLIMEPOINT
    [] r = 2 -> StartsWith(n, WARP_PREFIX)
    [] r = 3 -> StartsWith(n, NPC_PREFIX)
    [] r = 4 -> n \in ShopNames
    [] r = 5 -> n \in SpecialNames

\* the first rule that matches n, 6 when none does
RuleOf(n) ==
  IF \E r \in 1..5 : MatchesRule(r, n)
  THEN CHOOSE r \in 1..5 :
         MatchesRule(r, n) /\ \A q \in 1..(r - 1) : ~MatchesRule(q, n)
  ELSE 6

\* the object names of the instance records whose first rule is r, in order
NamesOfRule(insts, r) ==
  LET names == [k \in 1..Len(insts) |-> StrAttr(insts[k].objName)]
      Test(n) == RuleOf(n) = r
  IN SelectSeq(names, Test)

ObjNames(col) == [k \in 1..Len(col) |-> col[k].obj_name]

WarpTypes(col) == [k \in 1..Len(col) |-> col[k].warp_type]

Placed(room) ==
  Len(room.spawn_points) + Len(room.warps) + Len(room.npcs)
    + Len(room.shops) + Len(room.special_objects)

Instances(d) == IF d.instances = None THEN << >> ELSE d.instances[1]

\* C3: each collection of the room holds, in document order, the instance
\* records whose first matching rule (obj_slimepoint, warp_, NPC_, shop name,
\* special-object name) is its own, a record that matches no rule is in none,
\* and the five sizes sum to at most the number of instance records.
C3_FirstMatchWins ==
  (pc = "roomdone" /\ room_data.kind = "room") =>
    LET room  == room_data.room[1]
        insts == Instances(room_doc)
    IN /\ Len(room.spawn_points) = Len(NamesOfRule(insts, 1))
       /\ WarpTypes(room.warps) = NamesOfRule(insts, 2)
       /\ ObjNames(room.npcs) = NamesOfRule(insts, 3)
       /\ ObjNames(room.shops) = NamesOfRule(insts, 4)
       /\ ObjNames(room.special_objects) = NamesOfRule(insts, 5)
       /\ Placed(room) + Len(NamesOfRule(insts, 6)) = Len(insts)
       /\ Placed(room) <= Len(insts)

\* a document of two instance records, one a warp, the other in no collection
C3_Witness ==
  /\ pc = "roomdone"
  /\ room_data.kind = "room"
  /\ Len(Instances(room_doc)) = 2
  /\ Len(room_data.room[1].warps) = 1
  /\ Placed(room_data.room[1]) = 1

NumericOrUnset(field) == field = None \/ field[1].type \in {"int", "float"}

\* C4: next_room, new_x and new_y of every warp are unset or numeric, in the
\* Room record and in the exported record.
C4_WarpFieldsNumericOrUnset ==
  (pc = "roomdone" /\ room_data.kind = "room") =>
    /\ \A k \in 1..Len(room_data.room[1].warps) :
         LET w == room_data.room[1].warps[k]
         IN /\ NumericOrUnset(w.next_room)
            /\ NumericOrUnset(w.new_x)
            /\ NumericOrUnset(w.new_y)
    /\ \A k \in 1..Len(room_data.room[1].warps) :
         LET w == ExportRoom(room_data.room[1]).warps[k]
         IN /\ NumericOrUnset(w.next_room)
            /\ NumericOrUnset(w.new_x)
            /\ NumericOrUnset(w.new_y)

-----------------------------------------------------------------------------
(* The claim on get_room_order (SpecManifest) *)

\* the entry text with its leading "rooms\" stripped
StripLeadingPrefix(t) ==
  IF StartsWith(t, ROOMS_PREFIX)
  THEN SubSeq(t, Len(ROOMS_PREFIX) + 1, Len(t))
  ELSE t

Entries(proj) ==
  IF proj.wellformed /\ proj.rooms # None THEN proj.rooms[1] ELSE << >>

NonEmptyText(e) == e # None /\ e[1] # << >>

\* C7: the room order holds, in manifest order, one name per entry of
\* non-empty text: the text with its leading "rooms\" stripped and the rest
\* unchanged.
C7_LeadingPrefixStripped ==
  pc = "ordered" =>
    LET texts == SelectSeq(Entries(project), NonEmptyText)
    IN room_order =
         [k \in 1..Len(texts) |-> StripLeadingPrefix(texts[k][1])]

-----------------------------------------------------------------------------
(* The claims on main (Spec) *)

Positions(order, n) == {k \in 1..Len(order) : order[k] = n}

Least(S) == CHOOSE x \in S : \A y \in S : x <= y

Greatest(S) == CHOOSE x \in S : \A y \in S : y <= x

\* C1: no document aborts the run, and the room of every well-formed
\* document of the listing is in the final output.
C1_NoDocumentAbortsTheRun ==
  /\ pc # "aborted"
  /\ pc = "done" =>
       \A k \in 1..Len(files) :
         directory[files[k]].wellformed
           => RoomName(files[k]) \in DOMAIN output[1].rooms

\* C2 as stated: the index of a room is the position (from 0) of the first
\* occurrence of its name in the room order, -1 when there is none.
C2_FirstOccurrence ==
  pc = "done" =>
    \A n \in DOMAIN output[1].rooms :
      output[1].rooms[n].index =
        IF Positions(room_order, n) = {} THEN -1
        ELSE Least(Positions(room_order, n)) - 1

\* C2, amended: the index of a room is the position (from 0) of the last
\* occurrence of its name in the room order, -1 when there is none.
C2_LastOccurrence ==
  pc = "done" =>
    \A n \in DOMAIN output[1].rooms :
      output[1].rooms[n].index =
        IF Positions(room_order, n) = {} THEN -1
        ELSE Greatest(Positions(room_order, n)) - 1

\* a room whose name is listed twice, and a room whose name is not listed
C2_Witness ==
  /\ pc = "done"
  /\ \E n \in DOMAIN output[1].rooms :
       Cardinality(Positions(room_order, n)) >= 2
  /\ \E n \in DOMAIN output[1].rooms : Positions(room_order, n) = {}

\* the room files whose parse yields a RoomData
RoomsParsed ==
  {f \in DOMAIN directory :
     /\ EndsWith(f, ROOM_GLOB_SUFFIX)
     /\ parse_room_file(f, directory[f]).kind = "room"}

\* f is the last of the room files of its room name, in the order of str
LastOfItsName(f) ==
  \A g \in RoomsParsed : RoomName(g) = RoomName(f) => ~LessStr(f, g)

\* C5: the final output holds one record per room name, and the record of a
\* name is the whole record of the last document of that name in the sorted
\* listing, with its index.
C5_LastWriteWins ==
  pc = "done" =>
    /\ DOMAIN output[1].rooms = {RoomName(f) : f \in RoomsParsed}
    /\ \A f \in RoomsParsed :
         LastOfItsName(f) =>
           output[1].rooms[RoomName(f)] =
             ExportRoom([parse_room_file(f, directory[f]).room[1] EXCEPT
                           !.room_index =
                              output[1].rooms[RoomName(f)].index])

\* two documents of one room name with different contents
C5_Witness ==
  /\ pc = "done"
  /\ \E f, g \in RoomsParsed :
       /\ f # g
       /\ RoomName(f) = RoomName(g)
       /\ parse_room_file(f, directory[f]) # parse_room_file(g, directory[g])

\* C10: in the final output the index i of a room is -1, or 0 <= i <
\* len(room_order) with room_order[i] the name of the room; it is -1 exactly
\* when the name is not in room_order, and no two rooms share an index >= 0.
C10_IndexNamesTheRoom ==
  pc = "done" =>
    LET R == output[1].rooms
        O == output[1].room_order
    IN \A n \in DOMAIN R :
         /\ \/ R[n].index = -1
            \/ /\ 0 <= R[n].index
               /\ R[n].index < Len(O)
               /\ O[R[n].index + 1] = n
         /\ R[n].index = -1 <=> n \notin Range(O)
         /\ \A m \in DOMAIN R \ {n} :
              R[n].index >= 0 => R[m].index # R[n].index

\* a room with an index into room_order and a room with index -1
C10_Witness ==
  /\ pc = "done"
  /\ \E n \in DOMAIN output[1].rooms : output[1].rooms[n].index >= 0
  /\ \E n \in DOMAIN output[1].rooms : output[1].rooms[n].index = -1

-----------------------------------------------------------------------------
(* The claim on the order of the steps (SpecPar) *)

\* what the run of main ends with: its position and its output
SequentialRun(order, r) ==
  IF r.raised THEN <<"aborted", None>>
  ELSE <<"done", Some(Export(r.v, order))>>

=============================================================================
